---- MODULE Spec2Model ----
(***************************************************************************)
(* Model of the csv-import pipeline (src/import_csv.py, src/db_init.py):   *)
(* record validation, duplicate detection/removal, artist reconciliation   *)
(* and persistence over one store connection.                              *)
(*                                                                         *)
(* Text values are sequences of one-character strings, so that str.strip() *)
(* is computed and not assumed.  Python's 0-based fields[i] is written     *)
(* Field(fields, i).                                                       *)
(***************************************************************************)
EXTENDS Integers, Sequences, FiniteSets, TLC

VARIABLES
    \* ---- the run (import_csv and the functions it calls)
    pc,                 \* position of the current run inside import_csv
    remove_duplicates,  \* import_csv argument
    pre_analysis,       \* import_csv argument
    handle_bad_data,    \* import_csv argument: "report" | "insert"
    connection,         \* "none" | "open" | "closed"
    valid_rows,         \* local of process_csv_data / import_csv
    artists,            \* local set of artist names collected by process_csv_data
    bad_data_found,     \* local of process_csv_data
    duplicates,         \* local of import_csv
    artist_mapping,     \* local of import_csv (dict name -> artist_id)
    report_file,        \* lines appended to this run's bad_data_report_*.csv
    \* ---- the store and the file system (survive a run)
    db_artists,         \* committed rows of table artists
    db_songs,           \* committed rows of table songs (insertion order)
    tx_artists,         \* table artists as seen inside the connection's transaction
    tx_songs,           \* table songs as seen inside the connection's transaction
    tx_failed,          \* the transaction is in the aborted state
    artist_seq,         \* last value of the artists.artist_id sequence
    cleaned_file,       \* cleaned_data.csv: whether it exists, and its lines
    rows_read,          \* data rows the csv readers have yielded so far, all runs
    \* ---- history of the current run (what the log lines record)
    closes,             \* number of connection.close() calls in this run
    run_error,          \* exception caught at the run boundary, or "none"
    phase_log,          \* which except-branches of the persistence phases ran
    store_fault,        \* a store operation failed in this run
    bad_seen,           \* malformed rows met in this run
    start_artists,      \* db_artists when the run began
    start_songs,        \* db_songs when the run began
    start_file,         \* cleaned_file when the run began
    \* ---- unit harness for the pure functions
    u_pc,               \* which function the harness applies next
    u_in,               \* its arguments
    u_out               \* its results

run_vars == <<pc, remove_duplicates, pre_analysis, handle_bad_data, connection,
              valid_rows, artists, bad_data_found, duplicates, artist_mapping,
              report_file>>
store_vars == <<db_artists, db_songs, tx_artists, tx_songs, tx_failed, artist_seq,
                cleaned_file, rows_read>>
hist_vars == <<closes, run_error, phase_log, store_fault, bad_seen,
               start_artists, start_songs, start_file>>
unit_vars == <<u_pc, u_in, u_out>>
vars == <<run_vars, store_vars, hist_vars, unit_vars>>

(***************************************************************************)
(* Bounds                                                                  *)
(***************************************************************************)
MaxRows == 2        \* data rows read in one behaviour, over all its runs
MaxFields == 10     \* longest field tuple given to check_line_format
MaxSeqLen == 5      \* longest record sequence given to detect_duplicates
MaxKey == 3         \* largest artist key of an initial table of the harness

(***************************************************************************)
(* Text                                                                    *)
(***************************************************************************)
Whitespace == {" ", "\t"}

Field(fields, i) == fields[i + 1]

RECURSIVE lstrip(_)
lstrip(s) ==
    IF s = <<>> THEN s
    ELSE IF Head(s) \in Whitespace THEN lstrip(Tail(s)) ELSE s

RECURSIVE rstrip(_)
rstrip(s) ==
    IF s = <<>> THEN s
    ELSE IF s[Len(s)] \in Whitespace THEN rstrip(SubSeq(s, 1, Len(s) - 1)) ELSE s

strip(s) == rstrip(lstrip(s))

Range(s) == {s[i] : i \in 1..Len(s)}

(***************************************************************************)
(* check_line_format                                                       *)
(***************************************************************************)
NumFields == 9

\* variant: the clean-artist field is tested without strip()
check_line_format_nostrip(fields) ==
    IF Len(fields) # NumFields THEN FALSE
    ELSE LET unique_id == strip(Field(fields, 6))
             artist_clean == Field(fields, 3)
         IN  IF unique_id = <<>> \/ artist_clean = <<>> THEN FALSE ELSE TRUE

check_line_format(fields) ==
    IF Len(fields) # NumFields THEN FALSE
    ELSE LET unique_id == strip(Field(fields, 6))
             artist_clean == strip(Field(fields, 3))
         IN  IF unique_id = <<>> \/ artist_clean = <<>> THEN FALSE ELSE TRUE

(***************************************************************************)
(* detect_duplicates: the loop over valid_rows with its seen_ids set       *)
(***************************************************************************)
\* variant: a first sighting is not remembered in seen_ids
RECURSIVE detect_loop_forgets(_, _, _, _)
detect_loop_forgets(rows, i, seen_ids, dups) ==
    IF i > Len(rows) THEN dups
    ELSE LET unique_id == Field(rows[i], 6)
         IN  IF unique_id \in seen_ids
             THEN detect_loop_forgets(rows, i + 1, seen_ids, Append(dups, rows[i]))
             ELSE detect_loop_forgets(rows, i + 1, seen_ids, dups)

RECURSIVE detect_loop(_, _, _, _)
detect_loop(rows, i, seen_ids, dups) ==
    IF i > Len(rows) THEN dups
    ELSE LET unique_id == Field(rows[i], 6)
         IN  IF unique_id \in seen_ids
             THEN detect_loop(rows, i + 1, seen_ids, Append(dups, rows[i]))
             ELSE detect_loop(rows, i + 1, seen_ids \cup {unique_id}, dups)

detect_duplicates(rows) == detect_loop(rows, 1, {}, <<>>)

(***************************************************************************)
(* import_csv, lines 155-157: the duplicate policy                         *)
(***************************************************************************)
\* variant: only the rows reported as duplicates are dropped
apply_duplicate_policy_keeps_first(rows, dups, remove) ==
    IF remove
    THEN LET Keep(line) == line \notin Range(dups)
         IN  SelectSeq(rows, Keep)
    ELSE rows

apply_duplicate_policy(rows, dups, remove) ==
    IF remove
    THEN LET dup_ids == {Field(dup, 6) : dup \in Range(dups)}
             Keep(line) == Field(line, 6) \notin dup_ids
         IN  SelectSeq(rows, Keep)
    ELSE rows

(***************************************************************************)
(* Input rows.  Row(song, artist, id) is a 9-field tuple in the fixed      *)
(* column order.                                                           *)
(***************************************************************************)
expected_header ==
    <<"SONG RAW", "Song Clean", "ARTIST RAW", "ARTIST CLEAN", "CALLSIGN", "TIME",
      "UNIQUE_ID", "COMBINED", "First?">>

validate_header(first_line) == first_line = expected_header

Row(song, artist, id) ==
    <<song, song, artist, artist, <<"W">>, <<"t">>, id, <<"c">>, <<"Y">>>>

HeaderSet ==
    { expected_header,
      [expected_header EXCEPT ![7] = "ID"],
      [expected_header EXCEPT ![1] = "Song Clean", ![2] = "SONG RAW"] }

RowSet ==
    { Row(<<"1">>, <<" ", "X", " ">>, <<"A">>),      \* valid, artist " X "
      Row(<<"2">>, <<"Y">>, <<"A">>),                \* valid, same id, other artist
      Row(<<"3">>, <<>>, <<" ">>),                   \* 9 fields, blank id and artist
      <<<<"4">>, <<"4">>, <<"Z">>>> }                \* 3 fields

(***************************************************************************)
(* The store: table artists is a set of rows with a generated key and a    *)
(* unique clean name, table songs a sequence of rows in insertion order.   *)
(***************************************************************************)
unknown == <<"u", "n", "k", "n", "o", "w", "n">>

ArtistRow(id, raw, clean) ==
    [artist_id |-> id, artist_name_raw |-> raw, artist_name_clean |-> clean]

CleanNames(tbl) == {a.artist_name_clean : a \in tbl}

ArtistIds(tbl) == {a.artist_id : a \in tbl}

\* variant: a plain INSERT, without ON CONFLICT DO NOTHING and without the constraint
insert_artist_always(st, artist_name) ==
    [tbl |-> st.tbl \cup {ArtistRow(st.seq + 1, artist_name, artist_name)},
     seq |-> st.seq + 1]

\* INSERT INTO artists ... ON CONFLICT (artist_name_clean) DO NOTHING.
\* st = [tbl, seq]: the table and the key sequence; the key default is drawn
\* from the sequence before the conflict is detected.
insert_artist_ignore(st, artist_name) ==
    IF artist_name \in CleanNames(st.tbl)
    THEN [tbl |-> st.tbl, seq |-> st.seq + 1]
    ELSE [tbl |-> st.tbl \cup {ArtistRow(st.seq + 1, artist_name, artist_name)},
          seq |-> st.seq + 1]

\* the loop of insert_artists_to_db over the names in iteration order
RECURSIVE insert_artists_loop(_, _)
insert_artists_loop(st, order) ==
    IF order = <<>> THEN st
    ELSE insert_artists_loop(insert_artist_ignore(st, Head(order)), Tail(order))

\* the orders in which a Python set may be iterated
Orders(S) == {f \in [1..Cardinality(S) -> S] : Range(f) = S}

\* SELECT artist_id, artist_name_clean FROM artists, folded into a dict
artist_dict(tbl) ==
    [n \in CleanNames(tbl) |->
        CHOOSE id \in ArtistIds(tbl) :
            \E a \in tbl : a.artist_id = id /\ a.artist_name_clean = n]

SongRow(fields, artist_id) ==
    [song_name_raw |-> Field(fields, 0), song_name_clean |-> Field(fields, 1),
     artist_id |-> artist_id, callsign |-> Field(fields, 4), time |-> Field(fields, 5),
     unique_id |-> Field(fields, 6), combined |-> Field(fields, 7),
     first_play |-> Field(fields, 8)]

\* variant: a row whose artist is missing from the mapping is inserted with no key
RECURSIVE insert_songs_loop_unchecked(_, _, _)
insert_songs_loop_unchecked(songs, rows, mapping) ==
    IF rows = <<>> THEN songs
    ELSE LET fields == Head(rows)
             key == strip(Field(fields, 3))
             artist_id == IF key \in DOMAIN mapping THEN mapping[key] ELSE 0
         IN  insert_songs_loop_unchecked(Append(songs, SongRow(fields, artist_id)),
                                         Tail(rows), mapping)

\* the loop of insert_songs_to_db: rows whose artist is not in the mapping are skipped
RECURSIVE insert_songs_loop(_, _, _)
insert_songs_loop(songs, rows, mapping) ==
    IF rows = <<>> THEN songs
    ELSE LET fields == Head(rows)
             key == strip(Field(fields, 3))
         IN  IF key \notin DOMAIN mapping
             THEN insert_songs_loop(songs, Tail(rows), mapping)
             ELSE insert_songs_loop(Append(songs, SongRow(fields, mapping[key])),
                                    Tail(rows), mapping)

\* log_bad_data: ','.join(fields) and the field count
RECURSIVE join_comma(_)
join_comma(fields) ==
    IF fields = <<>> THEN <<>>
    ELSE IF Len(fields) = 1 THEN Head(fields)
    ELSE Head(fields) \o <<",">> \o join_comma(Tail(fields))

report_line(fields) == <<join_comma(fields), Len(fields)>>

(***************************************************************************)
(* The connection's transaction.  A store value s holds the committed      *)
(* tables, the tables as the open transaction sees them, the aborted flag  *)
(* and the key sequence (which no rollback resets).                        *)
(***************************************************************************)
CurStore ==
    [db_artists |-> db_artists, db_songs |-> db_songs, tx_artists |-> tx_artists,
     tx_songs |-> tx_songs, tx_failed |-> tx_failed, artist_seq |-> artist_seq]

SetStore(s) ==
    /\ db_artists' = s.db_artists
    /\ db_songs' = s.db_songs
    /\ tx_artists' = s.tx_artists
    /\ tx_songs' = s.tx_songs
    /\ tx_failed' = s.tx_failed
    /\ artist_seq' = s.artist_seq

Rollback(s) ==
    [s EXCEPT !.tx_artists = s.db_artists, !.tx_songs = s.db_songs, !.tx_failed = FALSE]

\* connection.commit(): COMMIT of an aborted transaction rolls it back
Commit(s) ==
    IF s.tx_failed THEN Rollback(s)
    ELSE [s EXCEPT !.db_artists = s.tx_artists, !.db_songs = s.tx_songs]

Abort(s) == [s EXCEPT !.tx_failed = TRUE]

\* where a store operation of the current call fails, if it does
Faults == {"none", "select", "insert_unknown", "execute", "commit"}

(***************************************************************************)
(* create_unknown_artist: returns the key of 'unknown', or None (ok=FALSE) *)
(* when the SELECT or the INSERT raises                                    *)
(***************************************************************************)
create_unknown_artist(s, fault) ==
    IF s.tx_failed \/ fault = "select"
    THEN [ok |-> FALSE, id |-> 0, st |-> Abort(s)]
    ELSE IF unknown \in CleanNames(s.tx_artists)
    THEN [ok |-> TRUE, id |-> artist_dict(s.tx_artists)[unknown], st |-> s]
    ELSE IF fault = "insert_unknown"
    THEN [ok |-> FALSE, id |-> 0, st |-> Abort(s)]
    ELSE [ok |-> TRUE, id |-> s.artist_seq + 1,
          st |-> [s EXCEPT !.tx_artists = @ \cup {ArtistRow(s.artist_seq + 1, unknown, unknown)},
                           !.artist_seq = @ + 1]]

(***************************************************************************)
(* insert_bad_data: err is the exception that leaves the function          *)
(***************************************************************************)
insert_bad_data(s, fields, fault) ==
    LET u == create_unknown_artist(s, fault)
    IN  IF ~(u.ok /\ u.id # 0)
        THEN [st |-> u.st, err |-> "none", inserted |-> FALSE]
        ELSE IF Len(fields) < NumFields
        THEN [st |-> u.st, err |-> "IndexError", inserted |-> FALSE]
        ELSE IF fault = "execute"
        THEN [st |-> Abort(u.st), err |-> "DatabaseError", inserted |-> FALSE]
        ELSE IF fault = "commit"
        THEN [st |-> Rollback(u.st), err |-> "DatabaseError", inserted |-> FALSE]
        ELSE [st |-> Commit([u.st EXCEPT !.tx_songs = Append(@, SongRow(fields, u.id))]),
              err |-> "none", inserted |-> TRUE]

(***************************************************************************)
(* insert_artists_to_db: order is the iteration order of the set, at the   *)
(* position of the failing statement when fault = "execute"; every store   *)
(* error is caught inside the function (failed = the except branch ran)    *)
(***************************************************************************)
insert_artists_to_db(s, order, fault, at) ==
    IF order # <<>> /\ (s.tx_failed \/ fault = "execute")
    THEN LET done == IF s.tx_failed THEN <<>> ELSE SubSeq(order, 1, at - 1)
             r == insert_artists_loop([tbl |-> s.tx_artists, seq |-> s.artist_seq], done)
         IN  [st |-> [Abort(s) EXCEPT !.artist_seq = r.seq], failed |-> TRUE]
    ELSE LET r == insert_artists_loop([tbl |-> s.tx_artists, seq |-> s.artist_seq], order)
             t == [s EXCEPT !.tx_artists = r.tbl, !.artist_seq = r.seq]
         IN  IF fault = "commit"
             THEN [st |-> Rollback(t), failed |-> TRUE]
             ELSE [st |-> Commit(t), failed |-> FALSE]

(***************************************************************************)
(* fetch_artist_mapping: an error leaves the dict empty and is caught      *)
(***************************************************************************)
fetch_artist_mapping(s, fault) ==
    IF s.tx_failed \/ fault = "execute"
    THEN [st |-> Abort(s), mapping |-> <<>>, failed |-> TRUE]
    ELSE [st |-> s, mapping |-> artist_dict(s.tx_artists), failed |-> FALSE]

(***************************************************************************)
(* insert_songs_to_db: one batch, one commit; errors are caught            *)
(***************************************************************************)
insert_songs_to_db(s, rows, mapping, fault) ==
    LET new == insert_songs_loop(s.tx_songs, rows, mapping)
    IN  IF new # s.tx_songs /\ (s.tx_failed \/ fault = "execute")
        THEN [st |-> Abort(s), failed |-> TRUE]
        ELSE IF fault = "commit"
        THEN [st |-> Rollback(s), failed |-> TRUE]
        ELSE [st |-> Commit([s EXCEPT !.tx_songs = new]), failed |-> FALSE]

\* save_cleaned_data: header line, then the rows
cleaned_data(rows) == [exists |-> TRUE, lines |-> <<expected_header>> \o rows]

\* import_csv's finally: close the connection unless it was never made
must_close(conn) == conn # "none"

(***************************************************************************)
(* Initial state: tables freshly created by db_init, no run started        *)
(***************************************************************************)
NoFile == [exists |-> FALSE, lines |-> <<>>]

RunInit ==
    /\ pc = "idle"
    /\ remove_duplicates = FALSE
    /\ pre_analysis = FALSE
    /\ handle_bad_data = "report"
    /\ connection = "none"
    /\ valid_rows = <<>>
    /\ artists = {}
    /\ bad_data_found = FALSE
    /\ duplicates = <<>>
    /\ artist_mapping = <<>>
    /\ report_file = <<>>
    /\ db_artists = {}
    /\ db_songs = <<>>
    /\ tx_artists = {}
    /\ tx_songs = <<>>
    /\ tx_failed = FALSE
    /\ artist_seq = 0
    /\ cleaned_file = NoFile
    /\ rows_read = 0
    /\ closes = 0
    /\ run_error = "none"
    /\ phase_log = {}
    /\ store_fault = FALSE
    /\ bad_seen = 0
    /\ start_artists = {}
    /\ start_songs = <<>>
    /\ start_file = NoFile

Init ==
    /\ RunInit
    /\ u_pc = "off"
    /\ u_in = <<>>
    /\ u_out = <<>>

(***************************************************************************)
(* import_csv, step by step                                                *)
(***************************************************************************)
\* entry: arguments bound, psycopg2.connect
import_csv_begin(rd, pa, hbd, connect_ok) ==
    /\ pc \in {"idle", "done"}
    /\ remove_duplicates' = rd
    /\ pre_analysis' = pa
    /\ handle_bad_data' = hbd
    /\ connection' = IF connect_ok THEN "open" ELSE "none"
    /\ pc' = IF connect_ok THEN "fetch" ELSE "finally"
    /\ run_error' = IF connect_ok THEN "none" ELSE "DatabaseError"
    /\ valid_rows' = <<>>
    /\ artists' = {}
    /\ bad_data_found' = FALSE
    /\ duplicates' = <<>>
    /\ artist_mapping' = <<>>
    /\ report_file' = <<>>
    /\ closes' = 0
    /\ phase_log' = {}
    /\ store_fault' = ~connect_ok
    /\ bad_seen' = 0
    /\ start_artists' = db_artists
    /\ start_songs' = db_songs
    /\ start_file' = cleaned_file
    /\ SetStore(Rollback(CurStore))
    /\ UNCHANGED <<cleaned_file, rows_read, unit_vars>>

\* a step that only moves the run on, to `next`, raising `err` if not "none"
Goto(next, err) ==
    /\ pc' = next
    /\ run_error' = err
    /\ UNCHANGED <<remove_duplicates, pre_analysis, handle_bad_data, connection,
                   valid_rows, artists, bad_data_found, duplicates, artist_mapping,
                   report_file, store_vars, closes, phase_log, store_fault,
                   bad_seen, start_artists, start_songs, start_file, unit_vars>>

\* fetch_csv_data: requests.get / raise_for_status
fetch_csv_data(ok) ==
    /\ pc = "fetch"
    /\ IF ok THEN Goto("header", "none") ELSE Goto("finally", "RequestException")

\* next(csv_reader, None) is None: the file is empty
import_csv_empty ==
    /\ pc = "header"
    /\ Goto("finally", "none")

\* validate_header(first_line)
import_csv_header(first_line) ==
    /\ pc = "header"
    /\ IF validate_header(first_line)
       THEN Goto("process", "none")
       ELSE Goto("finally", "none")

\* process_csv_data: one iteration of the loop over csv_reader
process_row(fields, fault) ==
    /\ pc = "process"
    /\ rows_read < MaxRows
    /\ rows_read' = rows_read + 1
    /\ IF check_line_format(fields)
       THEN /\ artists' = artists \cup {strip(Field(fields, 3))}
            /\ valid_rows' = Append(valid_rows, fields)
            /\ UNCHANGED <<pc, bad_data_found, report_file, db_artists, db_songs,
                           tx_artists, tx_songs, tx_failed, artist_seq, cleaned_file,
                           run_error, store_fault, bad_seen>>
       ELSE /\ bad_data_found' = TRUE
            /\ bad_seen' = bad_seen + 1
            /\ UNCHANGED <<artists, valid_rows, cleaned_file>>
            /\ IF handle_bad_data = "report"
               THEN /\ report_file' = Append(report_file, report_line(fields))
                    /\ UNCHANGED <<pc, db_artists, db_songs, tx_artists, tx_songs,
                                   tx_failed, artist_seq, run_error, store_fault>>
               ELSE LET r == insert_bad_data(CurStore, fields, fault)
                    IN  /\ SetStore(r.st)
                        /\ run_error' = r.err
                        /\ pc' = IF r.err = "none" THEN "process" ELSE "finally"
                        /\ store_fault' = (store_fault \/ r.st.tx_failed
                                           \/ r.err = "DatabaseError")
                        /\ UNCHANGED report_file
    /\ UNCHANGED <<remove_duplicates, pre_analysis, handle_bad_data, connection,
                   duplicates, artist_mapping, closes, phase_log,
                   start_artists, start_songs, start_file, unit_vars>>

\* process_csv_data: the reader is exhausted, the function returns
process_end ==
    /\ pc = "process"
    /\ Goto("detect", "none")

\* duplicates = detect_duplicates(valid_rows)
import_csv_detect ==
    /\ pc = "detect"
    /\ duplicates' = detect_duplicates(valid_rows)
    /\ pc' = "policy"
    /\ UNCHANGED <<remove_duplicates, pre_analysis, handle_bad_data, connection,
                   valid_rows, artists, bad_data_found, artist_mapping,
                   report_file, store_vars, hist_vars, unit_vars>>

\* if remove_duplicates: valid_rows = [...]; then the pre_analysis test
import_csv_policy ==
    /\ pc = "policy"
    /\ valid_rows' = apply_duplicate_policy(valid_rows, duplicates, remove_duplicates)
    /\ pc' = IF pre_analysis THEN "finally" ELSE "save"
    /\ UNCHANGED <<remove_duplicates, pre_analysis, handle_bad_data, connection,
                   artists, bad_data_found, duplicates, artist_mapping,
                   report_file, store_vars, hist_vars, unit_vars>>

\* save_cleaned_data(valid_rows); an OSError leaves through the run boundary
import_csv_save(ok) ==
    /\ pc = "save"
    /\ cleaned_file' = IF ok THEN cleaned_data(valid_rows) ELSE cleaned_file
    /\ pc' = IF ok THEN "insert_artists" ELSE "finally"
    /\ run_error' = IF ok THEN "none" ELSE "OSError"
    /\ UNCHANGED <<remove_duplicates, pre_analysis, handle_bad_data, connection,
                   valid_rows, artists, bad_data_found, duplicates, artist_mapping,
                   rows_read, report_file, db_artists, db_songs, tx_artists, tx_songs,
                   tx_failed, artist_seq, closes, phase_log, store_fault,
                   bad_seen, start_artists, start_songs, start_file, unit_vars>>

\* a persistence phase: the new store, the phase's name if its except branch ran
Phase(next, st, name, failed) ==
    /\ pc' = next
    /\ SetStore(st)
    /\ phase_log' = IF failed THEN phase_log \cup {name} ELSE phase_log
    /\ store_fault' = (store_fault \/ failed)
    /\ UNCHANGED <<remove_duplicates, pre_analysis, handle_bad_data, connection,
                   valid_rows, artists, bad_data_found, duplicates, rows_read,
                   report_file, cleaned_file, closes, run_error, bad_seen,
                   start_artists, start_songs, start_file, unit_vars>>

\* insert_artists_to_db(artists, connection)
import_csv_artists(order, fault, at) ==
    /\ pc = "insert_artists"
    /\ LET r == insert_artists_to_db(CurStore, order, fault, at)
       IN  Phase("fetch_mapping", r.st, "artists", r.failed)
    /\ UNCHANGED artist_mapping

\* artist_mapping = fetch_artist_mapping(connection)
import_csv_mapping(fault) ==
    /\ pc = "fetch_mapping"
    /\ LET r == fetch_artist_mapping(CurStore, fault)
       IN  /\ Phase("insert_songs", r.st, "mapping", r.failed)
           /\ artist_mapping' = r.mapping

\* insert_songs_to_db(valid_rows, artist_mapping, connection)
import_csv_songs(fault) ==
    /\ pc = "insert_songs"
    /\ LET r == insert_songs_to_db(CurStore, valid_rows, artist_mapping, fault)
       IN  Phase("finally", r.st, "songs", r.failed)
    /\ UNCHANGED artist_mapping

\* variant: close() at the end of the try block, not in a finally clause
import_csv_close_in_try ==
    /\ pc = "finally"
    /\ pc' = "done"
    /\ IF must_close(connection) /\ run_error = "none"
       THEN /\ connection' = "closed"
            /\ closes' = closes + 1
            /\ SetStore(Rollback(CurStore))
       ELSE UNCHANGED <<connection, closes, db_artists, db_songs, tx_artists,
                        tx_songs, tx_failed, artist_seq>>
    /\ remove_duplicates' = FALSE
    /\ pre_analysis' = FALSE
    /\ handle_bad_data' = "report"
    /\ valid_rows' = <<>>
    /\ artists' = {}
    /\ bad_data_found' = FALSE
    /\ duplicates' = <<>>
    /\ artist_mapping' = <<>>
    /\ report_file' = <<>>
    /\ phase_log' = {}
    /\ store_fault' = FALSE
    /\ bad_seen' = 0
    /\ start_artists' = db_artists
    /\ start_songs' = db_songs
    /\ start_file' = cleaned_file
    /\ UNCHANGED <<cleaned_file, rows_read, run_error, unit_vars>>

\* finally: connection.close() discards whatever the transaction holds;
\* import_csv returns and its arguments and locals are gone
import_csv_finally ==
    /\ pc = "finally"
    /\ pc' = "done"
    /\ IF must_close(connection)
       THEN /\ connection' = "closed"
            /\ closes' = closes + 1
            /\ SetStore(Rollback(CurStore))
       ELSE UNCHANGED <<connection, closes, db_artists, db_songs, tx_artists,
                        tx_songs, tx_failed, artist_seq>>
    /\ remove_duplicates' = FALSE
    /\ pre_analysis' = FALSE
    /\ handle_bad_data' = "report"
    /\ valid_rows' = <<>>
    /\ artists' = {}
    /\ bad_data_found' = FALSE
    /\ duplicates' = <<>>
    /\ artist_mapping' = <<>>
    /\ report_file' = <<>>
    /\ phase_log' = {}
    /\ store_fault' = FALSE
    /\ bad_seen' = 0
    /\ start_artists' = db_artists
    /\ start_songs' = db_songs
    /\ start_file' = cleaned_file
    /\ UNCHANGED <<cleaned_file, rows_read, run_error, unit_vars>>

(***************************************************************************)
(* db_init.py --recreate between runs: both tables dropped in one commit   *)
(* and created again, empty                                                *)
(***************************************************************************)
drop_existing_tables ==
    /\ pc = "done"
    /\ db_artists # {} \/ db_songs # <<>>
    /\ db_artists' = {}
    /\ db_songs' = <<>>
    /\ tx_artists' = {}
    /\ tx_songs' = <<>>
    /\ artist_seq' = 0
    /\ start_artists' = {}
    /\ start_songs' = <<>>
    /\ UNCHANGED <<run_vars, tx_failed, cleaned_file, rows_read, closes, run_error, phase_log,
                   store_fault, bad_seen, start_file, unit_vars>>

RunStep ==
    \/ \E ok \in BOOLEAN : fetch_csv_data(ok)
    \/ import_csv_empty
    \/ \E first_line \in HeaderSet : import_csv_header(first_line)
    \/ \E fields \in RowSet, fault \in Faults : process_row(fields, fault)
    \/ process_end
    \/ import_csv_detect
    \/ import_csv_policy
    \/ \E ok \in BOOLEAN : import_csv_save(ok)
    \/ \E order \in Orders(artists), fault \in {"none", "execute", "commit"},
          at \in 1..Cardinality(artists) \cup {1} :
            import_csv_artists(order, fault, at)
    \/ \E fault \in {"none", "execute"} : import_csv_mapping(fault)
    \/ \E fault \in {"none", "execute", "commit"} : import_csv_songs(fault)
    \/ import_csv_finally

Next ==
    \/ \E rd \in BOOLEAN, pa \in BOOLEAN, hbd \in {"report", "insert"},
          connect_ok \in BOOLEAN : import_csv_begin(rd, pa, hbd, connect_ok)
    \/ RunStep
    \/ drop_existing_tables

Spec == Init /\ [][Next]_vars

\* one sequential process: a run that has started takes its next step
FairSpec == Spec /\ WF_vars(RunStep)

(***************************************************************************)
(* Unit harness: the pure functions applied to inputs drawn from bounded   *)
(* sets, and the artist materialization applied twice to an initial table  *)
(***************************************************************************)
KeyVals == {<<>>, <<" ", "\t">>, <<"A">>, <<" ", "A", "\t">>}
OtherVals == {<<>>, <<"x">>}

\* field tuples of length n: positions 3 and 6 from KeyVals, the others from OtherVals
FieldTuples(n) ==
    {[i \in 1..n |-> IF i = 4 THEN a ELSE IF i = 7 THEN u ELSE o[i]] :
        a \in KeyVals, u \in KeyVals, o \in [1..n -> OtherVals]}

UnitIds == {<<"A">>, <<"B">>, <<"C">>, <<" ", "A">>}
Digits == <<"1", "2", "3", "4", "5", "6", "7", "8", "9">>

\* valid records with the given ids; tagged: the song field tells the records apart
UnitRows(ids, tagged) ==
    [i \in 1..Len(ids) |->
        Row(IF tagged THEN <<Digits[i]>> ELSE <<"s">>, <<"X">>, ids[i])]

UnitNames == {<<"X">>, <<"Y">>, unknown}

\* artist tables that respect the key and the unique clean-name constraint
UnitTables ==
    {{ArtistRow(p[2], p[1], p[1]) : p \in P} :
        P \in {Q \in SUBSET (UnitNames \X (1..MaxKey)) :
                 \A p, q \in Q : (p[1] = q[1] \/ p[2] = q[2]) => p = q}}

UnitStore(tbl) ==
    [db_artists |-> tbl, db_songs |-> <<>>, tx_artists |-> tbl, tx_songs |-> <<>>,
     tx_failed |-> FALSE, artist_seq |-> MaxKey]

UnitInit ==
    /\ RunInit
    /\ u_out = <<>>
    /\ \/ /\ u_pc = "line"
          /\ \E n \in 0..MaxFields : \E f \in FieldTuples(n) : u_in = [fields |-> f]
       \/ /\ u_pc = "rows"
          /\ \E n \in 0..MaxSeqLen : \E ids \in [1..n -> UnitIds] :
               \E tagged \in BOOLEAN, rd \in BOOLEAN :
                 u_in = [valid_rows |-> UnitRows(ids, tagged), remove_duplicates |-> rd]
       \/ /\ u_pc = "tbl"
          /\ \E tbl \in UnitTables, names \in SUBSET UnitNames :
               u_in = [s |-> UnitStore(tbl), names |-> names]

unit_check_line ==
    /\ u_pc = "line"
    /\ u_out' = [valid |-> check_line_format(u_in.fields)]
    /\ u_pc' = "line_done"
    /\ UNCHANGED <<u_in, run_vars, store_vars, hist_vars>>

unit_detect ==
    /\ u_pc = "rows"
    /\ u_out' = [duplicates |-> detect_duplicates(u_in.valid_rows)]
    /\ u_pc' = "detected"
    /\ UNCHANGED <<u_in, run_vars, store_vars, hist_vars>>

unit_policy ==
    /\ u_pc = "detected"
    /\ u_out' = [duplicates |-> u_out.duplicates,
                 valid_rows |-> apply_duplicate_policy(u_in.valid_rows, u_out.duplicates,
                                                       u_in.remove_duplicates)]
    /\ u_pc' = "policy_done"
    /\ UNCHANGED <<u_in, run_vars, store_vars, hist_vars>>

\* one pass: insert_artists_to_db(names), then fetch_artist_mapping
unit_materialize(order, fault1, at, fault2) ==
    /\ u_pc = "tbl"
    /\ Len(u_out) < 2
    /\ LET s == IF u_out = <<>> THEN u_in.s ELSE u_out[Len(u_out)].st
           a == insert_artists_to_db(s, order, fault1, at)
           m == fetch_artist_mapping(a.st, fault2)
       IN  u_out' = Append(u_out, [st |-> m.st, mapping |-> m.mapping,
                                   failed |-> (a.failed \/ m.failed)])
    /\ UNCHANGED <<u_pc, u_in, run_vars, store_vars, hist_vars>>

UnitNext ==
    \/ unit_check_line
    \/ unit_detect
    \/ unit_policy
    \/ /\ u_pc = "tbl"
       /\ \E order \in Orders(u_in.names), fault1 \in {"none", "execute", "commit"},
             at \in 1..Cardinality(u_in.names) \cup {1}, fault2 \in {"none", "execute"} :
               unit_materialize(order, fault1, at, fault2)

UnitSpec == UnitInit /\ [][UnitNext]_vars

(***************************************************************************)
(* Properties                                                              *)
(***************************************************************************)
\* a text has a character that strip() keeps
NonBlank(t) == \E i \in 1..Len(t) : t[i] \notin Whitespace

\* the elements of rows at the positions in idx, in their original order
AtPositions(rows, idx) ==
    LET In(i) == i \in idx
        ix == SelectSeq([i \in 1..Len(rows) |-> i], In)
    IN  [k \in 1..Len(ix) |-> rows[ix[k]]]

IdsOf(rows) == [i \in 1..Len(rows) |-> Field(rows[i], 6)]

ExampleIds == <<<<"A">>, <<"B">>, <<"A">>, <<"C">>, <<"A">>>>

\* C1: check_line_format answers valid exactly when the tuple has 9 fields and
\* the fields at positions 6 (unique id) and 3 (clean artist) each hold a
\* non-whitespace character; replacing any other field by any value, the length
\* kept, leaves the answer as it was.
C1_ValidIffNineFieldsIdArtist ==
    u_pc = "line_done" =>
        LET f == u_in.fields
        IN  /\ u_out.valid = (Len(f) = 9 /\ NonBlank(Field(f, 6)) /\ NonBlank(Field(f, 3)))
            /\ \A i \in (1..Len(f)) \ {4, 7} : \A v \in KeyVals \cup OtherVals :
                 check_line_format([f EXCEPT ![i] = v]) = u_out.valid

\* C1 witness: a 9-field tuple whose clean artist is padded with whitespace was
\* classified valid
C1_Witness ==
    /\ u_pc = "line_done"
    /\ u_out.valid
    /\ Len(u_in.fields) = 9
    /\ Field(u_in.fields, 3) = <<" ", "A", "\t">>

\* C2: detect_duplicates returns, in original order, exactly the records that
\* have an earlier record with the same unique_id field.
C2_DuplicatesAreTheRepeats ==
    u_pc = "detected" =>
        LET rows == u_in.valid_rows
            repeats == {i \in 1..Len(rows) :
                          \E j \in 1..(i - 1) : Field(rows[j], 6) = Field(rows[i], 6)}
        IN  u_out.duplicates = AtPositions(rows, repeats)

\* C2 witness: ids [A,B,A,C,A] on records that differ: the 2nd and 3rd A records
\* are returned
C2_Witness ==
    /\ u_pc = "detected"
    /\ IdsOf(u_in.valid_rows) = ExampleIds
    /\ u_in.valid_rows[1] # u_in.valid_rows[3]
    /\ u_out.duplicates = <<u_in.valid_rows[3], u_in.valid_rows[5]>>

\* C3: with removal requested the working set becomes the records whose
\* unique_id occurs once among the valid records, in original order (the first
\* occurrence of a repeated id is dropped too); without it the set is unchanged.
C3_RemovalDropsWholeId ==
    u_pc = "policy_done" =>
        LET rows == u_in.valid_rows
            once == {i \in 1..Len(rows) :
                       \A j \in 1..Len(rows) :
                          Field(rows[j], 6) = Field(rows[i], 6) => j = i}
        IN  u_out.valid_rows = IF u_in.remove_duplicates
                               THEN AtPositions(rows, once)
                               ELSE rows

\* C3 witness: ids [A,B,A,C,A] with removal requested leave [B,C]
C3_Witness ==
    /\ u_pc = "policy_done"
    /\ u_in.remove_duplicates
    /\ IdsOf(u_in.valid_rows) = ExampleIds
    /\ u_out.valid_rows = <<u_in.valid_rows[2], u_in.valid_rows[4]>>

UniqueCleanNames(tbl) ==
    \A a, b \in tbl : a.artist_name_clean = b.artist_name_clean => a = b

\* C9: when insert_artists_to_db and fetch_artist_mapping run twice with the
\* same names and no store error, both passes return the same mapping, it
\* covers every name, the second pass leaves table artists as the first left
\* it, and no two rows of the table share a clean name.
C9_MaterializationIdempotent ==
    (u_pc = "tbl" /\ Len(u_out) = 2 /\ ~u_out[1].failed /\ ~u_out[2].failed) =>
        /\ u_out[2].mapping = u_out[1].mapping
        /\ u_in.names \subseteq DOMAIN u_out[1].mapping
        /\ u_out[2].st.db_artists = u_out[1].st.db_artists
        /\ u_out[2].st.tx_artists = u_out[1].st.tx_artists
        /\ u_in.s.db_artists \subseteq u_out[1].st.db_artists
        /\ UniqueCleanNames(u_out[2].st.db_artists)

\* C9 witness: two passes without error over a non-empty table, the first of
\* which created an identity
C9_Witness ==
    /\ u_pc = "tbl"
    /\ Len(u_out) = 2
    /\ ~u_out[1].failed /\ ~u_out[2].failed
    /\ u_in.s.db_artists # {}
    /\ u_out[1].st.db_artists # u_in.s.db_artists

ReferencesResolve(songs, tbl) ==
    \A i \in 1..Len(songs) : songs[i].artist_id \in ArtistIds(tbl)

\* C4: every song row, committed or inside the open transaction, carries the
\* key of a row of table artists.
C4_SongsReferenceArtists ==
    /\ ReferencesResolve(db_songs, db_artists)
    /\ ReferencesResolve(tx_songs, tx_artists)

\* C4 witness: the committed store holds a song under 'unknown' and a song
\* under another artist
C4_Witness ==
    /\ \E i \in 1..Len(db_songs) : \E a \in db_artists :
         a.artist_id = db_songs[i].artist_id /\ a.artist_name_clean = unknown
    /\ \E i \in 1..Len(db_songs) : \E a \in db_artists :
         a.artist_id = db_songs[i].artist_id /\ a.artist_name_clean # unknown

\* C5 as claimed: during a pre-analysis run the committed tables and the
\* cleaned-data file stay as they were when the run began.
C5_PreAnalysisPersistsNothing ==
    (pre_analysis /\ pc \notin {"idle", "done"}) =>
        /\ db_artists = start_artists
        /\ db_songs = start_songs
        /\ cleaned_file = start_file

\* C6 as claimed: in insert mode, with no store error, a malformed row never
\* raises out of the loop, and every malformed row met so far is a song row
\* under the 'unknown' artist.
C6_EveryBadRowInserted ==
    (handle_bad_data = "insert" /\ ~store_fault /\ pc \in {"process", "finally"}) =>
        /\ run_error # "IndexError"
        /\ pc = "process" =>
             /\ Len(tx_songs) = Len(start_songs) + bad_seen
             /\ \A i \in (Len(start_songs) + 1)..Len(tx_songs) :
                  \E a \in tx_artists : /\ a.artist_id = tx_songs[i].artist_id
                                        /\ a.artist_name_clean = unknown

\* C7 as claimed: once a persistence phase has failed, the run attempts no
\* later phase: it is at its exit.
C7_StoreFailureEndsRun ==
    phase_log # {} => pc = "finally"

\* close() is called at most once per run; a run that has returned holds no open
\* connection and closed the one it opened exactly once; every step between
\* connect and the exit happens on an open connection, and none after close()
C8_Safe ==
    /\ closes <= 1
    /\ pc = "done" => /\ connection \in {"none", "closed"}
                      /\ (connection = "closed") = (closes = 1)
    /\ pc \in {"fetch", "header", "process", "detect", "policy", "save",
               "insert_artists", "fetch_mapping", "insert_songs"} => connection = "open"
    /\ connection = "closed" => pc = "done"

\* C8: on every path a run that opened the connection closes it, exactly once
\* (C8_Safe in every state), no step of the run follows the close, and an open
\* connection is eventually closed.
C8_ConnectionAlwaysReleased ==
    /\ []C8_Safe
    /\ (connection = "open") ~> (connection = "closed")

\* C8 witness: a run aborted by an exception raised in the row loop has
\* returned with its connection closed once
C8_Witness ==
    /\ pc = "done"
    /\ run_error = "IndexError"
    /\ connection = "closed"
    /\ closes = 1

\* C10 as claimed: the names handed to insert_artists_to_db are the trimmed
\* clean-artist values of the records left after the duplicate policy.
C10_ArtistsFromFilteredRows ==
    pc = "insert_artists" =>
        artists = {strip(Field(valid_rows[i], 3)) : i \in 1..Len(valid_rows)}

====
